---- MODULE Spec2Model ----
(***************************************************************************)
(* Camel: the batch path (Orchestrator autonomous_dev.py supervised by the *)
(* Guardian guardian_daemon.py) and the interactive path (the tool-call    *)
(* protocol and conversation loop of agent_interface.py).                  *)
(*                                                                         *)
(* Spec       the Orchestrator process, its agent tasks and the execution  *)
(*            log                                                          *)
(* SpecGuard  the same process under the Guardian, on a one-item catalog   *)
(* SpecGuardLive  SpecGuard with a Guardian that keeps running             *)
(* SpecParse  parse_tool_calls applied to bounded response texts           *)
(* SpecQuery  AgentInterface.query, round by round                         *)
(* SpecTools  execute_tool and the tools of tool_registry.py on a small    *)
(*            file system                                                  *)
(* SpecRestart  the restart commands of the Guardian and the dashboard     *)
(* SpecSelect the selection of WorkItems over the cycles, run for ever     *)
(* SpecChat   the terminal application (main.py) with prompts under way    *)
(*                                                                         *)
(* Console output (print) is taken not to fail.  Time is counted in ticks  *)
(* of TickMinutes minutes; waits are not timed, so every interleaving of   *)
(* the two processes with the clock is explored.                           *)
(***************************************************************************)
EXTENDS Integers, Sequences, FiniteSets, TLC

VARIABLES
    \* ---- Orchestrator process (autonomous_dev.py) ----
    tasks,              \* self.tasks: the catalog, one priority per WorkItem
    orchAlive,          \* the process is in the process table
    pc,                 \* position in continuous_development / run_development_cycle
    cycle_count,        \* self.cycle_count
    total_completions,  \* self.total_completions
    total_failures,     \* self.total_failures
    current_priority,   \* local of run_development_cycle
    selected,           \* priority_tasks[:2], as catalog indices
    active_agents,      \* local of run_development_cycle: the DevelopmentAgent objects
    completed,          \* local counter of the results loop
    failed,             \* local counter of the results loop
    idx,                \* position of the results loop in active_agents
    log,                \* table agent_execution_log
    now,                \* wall clock, in ticks
    exitCause,          \* why the last Orchestrator process ended
    faults,             \* internal faults raised so far
    lastFault,          \* kind of the last internal fault and the cycle_count it hit
    timedOut,           \* asyncio.TimeoutError was raised in the current cycle
    abandoned,          \* agent tasks of earlier cycles that are still in flight
    \* ---- Guardian process (guardian_daemon.py) ----
    gpc,                \* position in main()'s loop
    gFound,             \* running, as returned by is_autonomous_running
    gAge,               \* age_minutes of the newest record, NoRecord when None
    gActs,              \* kill / spawn issued since the last liveness check
    restarts,           \* restarts the Guardian has made
    gHealth,            \* health, as returned by get_system_health in this iteration
    gBasis,             \* last_activity of the last iteration that found it stale
    \* ---- interactive path (agent_interface.py) ----
    doc,                \* SpecParse: the response text, as blocks
    parsed,             \* SpecParse: what parse_tool_calls gave for doc
    qpc,                \* position of query()
    max_tool_iterations,
    iteration,          \* rounds of the for loop begun
    modelCalls,         \* client.post calls made
    full_response,      \* accumulated text, as pieces
    tool_results,       \* accumulated tool results of this query
    dispatched,         \* every call handed to execute_tool, in order
    responses,          \* the model's responses of this query, in order
    ret,                \* value returned by query()
    abortCause,         \* what ended query() early
    history,            \* the history argument of query(): prior exchanges, oldest first
    current_prompt,     \* local of query()
    prompts,            \* full_prompt of every model call of this query, in order
    \* ---- tools (tool_registry.py, AgentInterface.execute_tool) ----
    disk,               \* the files and directories the tools work on
    diskBefore,         \* disk as it was when the last tool call began
    toolCall,           \* the last tool call handed to execute_tool
    toolResult,         \* what execute_tool gave for it
    \* ---- terminal application (main.py) ----
    chat_log,           \* messages _process_query has written with add_message
    queries,            \* SpecChat: the _process_query tasks, in order of submission
    \* ---- restart commands (guardian_daemon.py, server.py) ----
    procs,              \* SpecRestart: Orchestrator processes in the process table
    dpc,                \* SpecRestart: position of the dashboard's restart_agents
    dCommands,          \* SpecRestart: restart commands the dashboard has taken
    \* ---- selection over the cycles ----
    everSelected        \* SpecSelect: catalog indices selected in some cycle so far

orchVars == <<tasks, orchAlive, pc, cycle_count, total_completions, total_failures,
              current_priority, selected, active_agents, completed, failed, idx,
              log, now, exitCause, faults, lastFault, timedOut, abandoned>>
guardVars == <<gpc, gFound, gAge, gActs, restarts, gHealth, gBasis>>
parseVars == <<doc, parsed>>
queryVars == <<qpc, max_tool_iterations, iteration, modelCalls, full_response,
               tool_results, dispatched, responses, ret, abortCause, history,
               current_prompt, prompts>>
toolVars == <<disk, diskBefore, toolCall, toolResult>>
appVars == <<chat_log, queries>>
lifeVars == <<procs, dpc, dCommands>>
selVars == <<everSelected>>
vars == <<orchVars, guardVars, parseVars, queryVars, toolVars, appVars, lifeVars, selVars>>

----------------------------------------------------------------------------
(* Bounds *)

MaxCycles == 5
MaxLog == 4
MaxRestarts == 1
MaxFaults == 1
MaxTicks == 2
TickMinutes == 15

(* Program constants *)

MaxAgentsPerCycle == 2
restart_threshold_minutes == 15

NoTime == -1
NoRecord == -1

FaultKinds == {"dbinit", "spawn", "task", "persist", "totals"}
NoFault == <<"none", 0>>

----------------------------------------------------------------------------
(* The catalog: load_development_tasks, one priority per entry in order. *)

Rep(n, p) == [i \in 1..n |-> p]

RealCatalog ==
    Rep(5, "critical") \o Rep(5, "high") \o Rep(8, "medium") \o Rep(2, "low")
    \o Rep(5, "high") \o Rep(7, "medium") \o Rep(5, "low")
    \o <<"high", "medium", "high", "medium", "medium">>

Catalogs ==
    { RealCatalog,
      Rep(5, "critical") \o <<"low">>,
      <<"high", "medium", "medium", "medium">>,
      << >> }

priority_order == <<"critical", "high", "medium", "low">>

\* priority_order[(self.cycle_count - 1) % len(priority_order)]
TierOffByOne(n) == priority_order[(n % Len(priority_order)) + 1]
Tier(n) == priority_order[((n - 1) % Len(priority_order)) + 1]

\* [t for t in self.tasks if t['priority'] == p], as catalog indices in order
IndicesOf(cat, p) ==
    LET RECURSIVE Walk(_)
        Walk(i) == IF i > Len(cat) THEN << >>
                   ELSE IF cat[i] = p THEN <<i>> \o Walk(i + 1) ELSE Walk(i + 1)
    IN Walk(1)

\* the tier's tasks, or the critical tier's when the tier is empty
PriorityTasksNoFallback(cat, p) == IndicesOf(cat, p)
PriorityTasks(cat, p) ==
    IF IndicesOf(cat, p) = << >> THEN IndicesOf(cat, "critical") ELSE IndicesOf(cat, p)

\* priority_tasks[:2]
FirstNUncapped(s, n) == s
FirstN(s, n) == IF Len(s) <= n THEN s ELSE SubSeq(s, 1, n)

\* DevelopmentAgent.__init__
NewAgent(t, time) ==
    [agent_id |-> <<t, time>>, task |-> t, status |-> "initialized",
     start_time |-> NoTime, end_time |-> NoTime, outputs |-> << >>,
     at |-> "new", escaped |-> "none"]

----------------------------------------------------------------------------
(* The Orchestrator process *)

\* the locals of run_development_cycle that are gone once it returns
NoLocals ==
    /\ active_agents' = << >>
    /\ completed' = 0
    /\ failed' = 0
    /\ idx' = 0
    /\ timedOut' = FALSE

\* execute_task coroutines that have begun and not ended
StillInFlight(agents) ==
    Cardinality({i \in DOMAIN agents : agents[i].at \in {"context", "await"}})

\* run_development_cycle returns: its locals are gone, a coroutine that has
\* not ended goes on without them
LeaveCycle ==
    /\ NoLocals
    /\ abandoned' = abandoned + StillInFlight(active_agents)

FreshProcessKeepsCounts ==
    /\ UNCHANGED <<cycle_count, total_completions, total_failures>>
    /\ current_priority' = "none"
    /\ selected' = << >>
    /\ lastFault' = NoFault
    /\ NoLocals
    /\ abandoned' = 0
\* AutonomousDevelopmentSystem.__init__: counters 0, no agents
FreshProcess ==
    /\ cycle_count' = 0
    /\ total_completions' = 0
    /\ total_failures' = 0
    /\ current_priority' = "none"
    /\ selected' = << >>
    /\ lastFault' = NoFault
    /\ NoLocals
    /\ abandoned' = 0

OthersIdle == UNCHANGED <<guardVars, parseVars, queryVars, toolVars, appVars, lifeVars, selVars>>

\* an internal fault of the given kind is raised / none is
Fault(kind, cycle) ==
    /\ faults < MaxFaults
    /\ faults' = faults + 1
    /\ lastFault' = <<kind, cycle>>
NoNewFault == UNCHANGED <<faults, lastFault>>

\* init_database: drop and recreate the table; any exception is printed and
\* swallowed, the table is then left as it was
InitDatabase ==
    /\ orchAlive /\ pc = "start"
    /\ \/ /\ log' = << >>
          /\ NoNewFault
       \/ /\ Fault("dbinit", cycle_count)
          /\ UNCHANGED log
    /\ pc' = "loop"
    /\ UNCHANGED <<tasks, abandoned, orchAlive, cycle_count, total_completions, total_failures,
                   current_priority, selected, active_agents, completed, failed, idx,
                   now, exitCause, timedOut>>
    /\ OthersIdle

\* spawn_agent for each of priority_tasks[:2]; a failed spawn returns None
\* and is left out of active_agents
SpawnAll(sel, ok, time) ==
    LET RECURSIVE Walk(_)
        Walk(i) == IF i > Len(sel) THEN << >>
                   ELSE IF ok[i] THEN <<NewAgent(sel[i], time)>> \o Walk(i + 1)
                   ELSE Walk(i + 1)
    IN Walk(1)

\* run_development_cycle up to asyncio.gather: count the cycle, pick the
\* tier, select, spawn; with no agent spawned the cycle returns at once
BeginCycle ==
    /\ orchAlive /\ pc = "loop"
    /\ cycle_count < MaxCycles
    /\ cycle_count' = cycle_count + 1
    /\ current_priority' = Tier(cycle_count')
    /\ selected' = FirstN(PriorityTasks(tasks, current_priority'), MaxAgentsPerCycle)
    /\ Len(log) + Len(selected') <= MaxLog
    /\ \E ok \in [1..Len(selected') -> BOOLEAN] :
          /\ active_agents' = SpawnAll(selected', ok, now)
          /\ IF \A i \in DOMAIN ok : ok[i] THEN NoNewFault
             ELSE Cardinality({i \in DOMAIN ok : ~ok[i]}) = 1 /\ Fault("spawn", cycle_count + 1)
    /\ pc' = IF active_agents' = << >> THEN "sleep" ELSE "gather"
    /\ completed' = 0 /\ failed' = 0 /\ idx' = 0
    /\ timedOut' = FALSE
    /\ UNCHANGED <<tasks, abandoned, orchAlive, total_completions, total_failures, log, now,
                   exitCause>>
    /\ OthersIdle

\* what a step of one agent task leaves alone
TaskFrame ==
    /\ UNCHANGED <<tasks, abandoned, orchAlive, pc, cycle_count, total_completions, total_failures,
                   current_priority, selected, completed, failed, idx, log, now,
                   exitCause, timedOut>>
    /\ OthersIdle

Started(a) == a.at \in {"await", "done"}

\* execute_task, first statements: status running, start time, first log line
TaskStart(i) ==
    /\ orchAlive /\ pc = "gather"
    /\ i \in DOMAIN active_agents
    /\ active_agents[i].at = "new"
    /\ \A j \in 1..(i - 1) : Started(active_agents[j])
    /\ active_agents' = [active_agents EXCEPT ![i] =
          [@ EXCEPT !.status = "running", !.start_time = now, !.at = "context",
                    !.outputs = <<"Starting task">>]]
    /\ NoNewFault
    /\ TaskFrame

\* the except / finally of execute_task for an exception of class Exception
FaultEscapes(a, time) ==
    [a EXCEPT !.end_time = time, !.at = "done",
              !.escaped = "Exception",
              !.outputs = a.outputs \o <<"Task running">>]
FaultCaughtNoFinally(a, time) ==
    [a EXCEPT !.status = "failed", !.at = "done",
              !.outputs = a.outputs \o <<"FATAL ERROR in task execution", "Traceback">>]
FaultCaught(a, time) ==
    [a EXCEPT !.status = "failed", !.end_time = time, !.at = "done",
              !.outputs = a.outputs \o <<"FATAL ERROR in task execution", "Traceback",
                                         "Task failed">>]

\* execute_task, building the context and the prompt, up to the model call:
\* either the call is issued (the task suspends) or an internal fault is
\* raised and caught at the task boundary
TaskQuery(i) ==
    /\ orchAlive /\ pc = "gather"
    /\ i \in DOMAIN active_agents
    /\ active_agents[i].at = "context"
    /\ \/ /\ active_agents' = [active_agents EXCEPT ![i] =
                [@ EXCEPT !.at = "await",
                          !.outputs = @ \o <<"Querying Ollama for implementation...">>]]
          /\ NoNewFault
       \/ /\ Fault("task", cycle_count)
          /\ active_agents' = [active_agents EXCEPT ![i] = FaultCaught(@, now)]
    /\ TaskFrame

ModelOutcomes == {"text", "empty", "status", "exception", "timeout", "fault"}

\* query_ollama's result for each way the model call can end, then the rest
\* of execute_task: a response completes the task, None fails it
AfterModelCall(a, outcome, time) ==
    IF outcome = "text"
    THEN [a EXCEPT !.status = "completed", !.end_time = time, !.at = "done",
                   !.outputs = a.outputs \o <<"Received response", "implementation",
                                              "Task completed">>]
    ELSE IF outcome = "fault"
    THEN FaultCaught(a, time)
    ELSE [a EXCEPT !.status = "failed", !.end_time = time, !.at = "done",
                   !.outputs = a.outputs
                       \o (CASE outcome = "status" -> <<"Ollama returned status">>
                             [] outcome \in {"exception", "timeout"} -> <<"Ollama query failed">>
                             [] OTHER -> << >>)
                       \o <<"No response from Ollama", "Task failed">>]

\* the model call of agent i ends while the cycle is still waiting
ModelReturns(i) ==
    /\ orchAlive /\ pc = "gather"
    /\ i \in DOMAIN active_agents
    /\ active_agents[i].at = "await"
    /\ \A j \in DOMAIN active_agents : Started(active_agents[j])
    /\ \E outcome \in ModelOutcomes :
          /\ active_agents' = [active_agents EXCEPT ![i] = AfterModelCall(@, outcome, now)]
          /\ IF outcome = "fault" THEN Fault("task", cycle_count) ELSE NoNewFault
    /\ TaskFrame

\* what a step of the cycle around its agents leaves alone
CycleFrame ==
    /\ UNCHANGED <<tasks, abandoned, orchAlive, cycle_count, total_completions, total_failures,
                   current_priority, selected, log, now, exitCause, faults, lastFault>>
    /\ OthersIdle

\* asyncio.gather returns: every task has finished
GatherDone ==
    /\ orchAlive /\ pc = "gather"
    /\ \A j \in DOMAIN active_agents : active_agents[j].at = "done"
    /\ pc' = "results"
    /\ completed' = 0 /\ failed' = 0 /\ idx' = 1
    /\ UNCHANGED <<active_agents, timedOut>>
    /\ CycleFrame

\* asyncio.wait_for cancels a task that is still suspended in its model call:
\* CancelledError is not an Exception, so only the finally clause runs
CancelledAdvisory(a, time) == a
Cancelled(a, time) ==
    IF a.at = "await"
    THEN [a EXCEPT !.end_time = time, !.at = "done",
                   !.escaped = "CancelledError",
                   !.outputs = a.outputs \o <<"Task running">>]
    ELSE a

\* the 600 s of wait_for elapse with a task still suspended
CycleTimeout ==
    /\ orchAlive /\ pc = "gather"
    /\ \A j \in DOMAIN active_agents : Started(active_agents[j])
    /\ \E j \in DOMAIN active_agents : active_agents[j].at = "await"
    /\ active_agents' = [j \in DOMAIN active_agents |-> Cancelled(active_agents[j], now)]
    /\ timedOut' = TRUE
    /\ pc' = "results"
    /\ completed' = 0 /\ failed' = 0 /\ idx' = 1
    /\ CycleFrame

\* the row log_agent_completion inserts
Record(a, time) ==
    [agent_id |-> a.agent_id, task |-> a.task, start_time |-> a.start_time,
     end_time |-> a.end_time, status |-> a.status, created_at |-> time]

\* INSERT INTO agent_execution_log: one more row at the end of the table
InsertReplacing(l, r) == <<r>>
Insert(l, r) == Append(l, r)

\* one iteration of the results loop: count, log_agent_completion, close
ProcessResult ==
    /\ orchAlive /\ pc = "results"
    /\ idx \in DOMAIN active_agents
    /\ LET a == active_agents[idx] IN
          /\ completed' = IF a.status = "completed" THEN completed + 1 ELSE completed
          /\ failed' = IF a.status = "completed" THEN failed ELSE failed + 1
          /\ \/ /\ log' = Insert(log, Record(a, now))
                /\ NoNewFault
             \/ /\ Fault("persist", cycle_count)
                /\ UNCHANGED log
    /\ idx' = idx + 1
    /\ UNCHANGED <<tasks, abandoned, orchAlive, pc, cycle_count, total_completions, total_failures,
                   current_priority, selected, active_agents, now, exitCause, timedOut>>
    /\ OthersIdle

\* the totals update that ends run_development_cycle
FinishCycle ==
    /\ orchAlive /\ pc = "results"
    /\ idx > Len(active_agents)
    /\ total_completions' = total_completions + completed
    /\ total_failures' = total_failures + failed
    /\ pc' = "sleep"
    /\ LeaveCycle
    /\ UNCHANGED <<tasks, orchAlive, cycle_count, current_priority, selected, log, now,
                   exitCause, faults, lastFault>>
    /\ OthersIdle

\* where the process stands after an exception reached the handler of
\* run_development_cycle: the handler prints and returns, the loop sleeps
AfterCycleFaultExit == [alive |-> FALSE, pc |-> "dead", cause |-> "fault"]
AfterCycleFault == [alive |-> TRUE, pc |-> "sleep", cause |-> exitCause]

\* an exception in the totals update, caught by `except Exception` of
\* run_development_cycle
CycleFault ==
    /\ orchAlive /\ pc = "results"
    /\ idx > Len(active_agents)
    /\ Fault("totals", cycle_count)
    /\ orchAlive' = AfterCycleFault.alive
    /\ pc' = AfterCycleFault.pc
    /\ exitCause' = AfterCycleFault.cause
    /\ LeaveCycle
    /\ UNCHANGED <<tasks, cycle_count, total_completions, total_failures,
                   current_priority, selected, log, now>>
    /\ OthersIdle

\* how long continuous_development sleeps at each of its two sleeps
CycleSleepSeconds == 600
BackoffSeconds == 60
SleepSeconds(p) ==
    CASE p = "sleep" -> CycleSleepSeconds
      [] p = "backoff" -> BackoffSeconds
      [] OTHER -> 0

\* asyncio.sleep(600) returns, the while loop goes round
WakeUp ==
    /\ orchAlive /\ pc = "sleep"
    /\ pc' = "loop"
    /\ UNCHANGED <<tasks, abandoned, orchAlive, cycle_count, total_completions, total_failures,
                   current_priority, selected, active_agents, completed, failed, idx,
                   log, now, exitCause, faults, lastFault, timedOut>>
    /\ OthersIdle

\* the process ends and its memory is gone; the table stays on disk
ProcessEnds(cause) ==
    /\ orchAlive' = FALSE
    /\ pc' = "dead"
    /\ exitCause' = cause
    /\ FreshProcess
    /\ UNCHANGED <<tasks, log, now, faults>>

\* KeyboardInterrupt: the loop breaks, "Stopped by user"
Interrupt ==
    /\ orchAlive
    /\ ProcessEnds("interrupt")
    /\ OthersIdle

\* the clock advances while the Orchestrator waits (every task suspended in
\* gather, or sleep) or is gone
Tick ==
    /\ now < MaxTicks
    /\ pc \in {"gather", "sleep", "dead"}
    /\ \A j \in DOMAIN active_agents : Started(active_agents[j])
    /\ now' = now + 1
    /\ UNCHANGED <<tasks, abandoned, orchAlive, pc, cycle_count, total_completions, total_failures,
                   current_priority, selected, active_agents, completed, failed, idx,
                   log, exitCause, faults, lastFault, timedOut>>
    /\ OthersIdle

----------------------------------------------------------------------------
(* The Guardian process *)

\* is_autonomous_running: pgrep finds the process, or nothing; an exception
\* of pgrep counts as not running
PgrepAlwaysFinds == {TRUE}
PgrepResults == IF orchAlive THEN {TRUE, FALSE} ELSE {FALSE}

\* SELECT created_at ... ORDER BY created_at DESC LIMIT 1
Newest(l) ==
    IF l = << >> THEN NoTime
    ELSE CHOOSE t \in {l[i].created_at : i \in DOMAIN l} :
             \A i \in DOMAIN l : l[i].created_at <= t

\* get_last_activity: the newest created_at, None when there is no row or
\* the read fails
LastActivityResults(l) == {Newest(l), NoTime}

\* age_minutes > restart_threshold_minutes
StaleAtThreshold(age) == age >= restart_threshold_minutes
Stale(age) == age > restart_threshold_minutes

\* get_system_health: completions / (completions + failures) of the last
\* hour, in percent, 100 when there is neither; None when the read fails
HealthWindowMinutes == 60
NoHealth == NoRecord
HealthScore(l, t) ==
    LET recent == {i \in DOMAIN l : (t - l[i].created_at) * TickMinutes < HealthWindowMinutes}
        recent_completions == Cardinality({i \in recent : l[i].status = "completed"})
        recent_failures == Cardinality({i \in recent : l[i].status = "failed"})
    IN IF recent_completions + recent_failures > 0
       THEN (recent_completions * 100) \div (recent_completions + recent_failures)
       ELSE 100
HealthResults(l, t) == {HealthScore(l, t), NoHealth}

\* main(), from get_last_activity to the restart decision: the age of the
\* newest record and whether it calls for a restart, for the log l at time t
ActivityOutcome(last, t) ==
    LET age == IF last = NoTime THEN NoRecord ELSE (t - last) * TickMinutes IN
    [age |-> age, restart |-> last # NoTime /\ Stale(age)]
ActivityCheckByHealth(l, t) ==
    {[o EXCEPT !.restart = @ \/ HealthScore(l, t) < 50] :
        o \in {ActivityOutcome(last, t) : last \in LastActivityResults(l)}}
ActivityCheck(l, t) == {ActivityOutcome(last, t) : last \in LastActivityResults(l)}

GuardFrame == UNCHANGED <<orchVars, parseVars, queryVars, toolVars, appVars, lifeVars, selVars>>

\* main(), the liveness check
GCheckAlive ==
    /\ gpc = "check"
    /\ \E running \in PgrepResults :
          /\ gFound' = running
          /\ gpc' = IF running THEN "activity" ELSE "kill"
    /\ gAge' = NoRecord
    /\ gHealth' = NoHealth
    /\ gActs' = << >>
    /\ UNCHANGED <<restarts, gBasis>>
    /\ GuardFrame

\* main(), the staleness check; without a restart the iteration goes on to
\* get_system_health and the health line
GCheckActivity ==
    /\ gpc = "activity"
    /\ \E o \in ActivityCheck(log, now) :
          /\ gAge' = o.age
          /\ IF o.restart
             THEN gpc' = "kill" /\ gHealth' = NoHealth /\ gBasis' = Newest(log)
             ELSE /\ gpc' = "sleep" /\ gHealth' \in HealthResults(log, now)
                  /\ UNCHANGED gBasis
    /\ UNCHANGED <<gFound, gActs, restarts>>
    /\ GuardFrame

\* restart_autonomous_system: pkill -f autonomous_dev.py
GKillSkipped ==
    /\ gpc = "kill"
    /\ restarts < MaxRestarts
    /\ restarts' = restarts + 1
    /\ gpc' = "spawn"
    /\ UNCHANGED <<gFound, gAge, gActs, gHealth, gBasis>>
    /\ GuardFrame
GKill ==
    /\ gpc = "kill"
    /\ restarts < MaxRestarts
    /\ restarts' = restarts + 1
    /\ gpc' = "spawn"
    /\ gActs' = Append(gActs, "kill")
    /\ IF orchAlive THEN ProcessEnds("kill") ELSE UNCHANGED orchVars
    /\ UNCHANGED <<gFound, gAge, gHealth, gBasis>>
    /\ UNCHANGED <<parseVars, queryVars, toolVars, appVars, lifeVars, selVars>>

\* restart_autonomous_system: Popen of a fresh detached process
GSpawn ==
    /\ gpc = "spawn"
    /\ gpc' = "grace"
    /\ gActs' = Append(gActs, "spawn")
    /\ orchAlive' = TRUE
    /\ pc' = "start"
    /\ FreshProcess
    /\ UNCHANGED <<tasks, log, now, exitCause, faults>>
    /\ UNCHANGED <<gFound, gAge, restarts, gHealth, gBasis>>
    /\ UNCHANGED <<parseVars, queryVars, toolVars, appVars, lifeVars, selVars>>

\* time.sleep(10) after a restart, then `continue`
GGraceDone ==
    /\ gpc = "grace"
    /\ gpc' = "check"
    /\ gFound' = FALSE /\ gAge' = NoRecord /\ gActs' = << >> /\ gHealth' = NoHealth
    /\ UNCHANGED <<restarts, gBasis>>
    /\ GuardFrame

\* time.sleep(check_interval) at the end of an iteration without restart
GSleepDone ==
    /\ gpc = "sleep"
    /\ gpc' = "check"
    /\ gFound' = FALSE /\ gAge' = NoRecord /\ gActs' = << >> /\ gHealth' = NoHealth
    /\ UNCHANGED <<restarts, gBasis>>
    /\ GuardFrame

----------------------------------------------------------------------------
(* Specifications of the batch path *)

InitProcess ==
    /\ orchAlive = TRUE
    /\ pc = "start"
    /\ cycle_count = 0
    /\ total_completions = 0
    /\ total_failures = 0
    /\ current_priority = "none"
    /\ selected = << >>
    /\ active_agents = << >>
    /\ completed = 0
    /\ failed = 0
    /\ idx = 0
    /\ log = << >>
    /\ now = 0
    /\ exitCause = "none"
    /\ faults = 0
    /\ lastFault = NoFault
    /\ timedOut = FALSE
    /\ abandoned = 0

InitGuard ==
    /\ gpc = "check"
    /\ gFound = FALSE
    /\ gAge = NoRecord
    /\ gActs = << >>
    /\ restarts = 0
    /\ gHealth = NoHealth
    /\ gBasis = NoTime

Unparsed == [state |-> "unset", calls |-> << >>]

InitIdleQuery ==
    /\ qpc = "unused"
    /\ max_tool_iterations = 0
    /\ iteration = 0
    /\ modelCalls = 0
    /\ full_response = << >>
    /\ tool_results = << >>
    /\ dispatched = << >>
    /\ responses = << >>
    /\ ret = [kind |-> "unset", text |-> << >>]
    /\ abortCause = "none"
    /\ history = << >>
    /\ current_prompt = "none"
    /\ prompts = << >>

\* no tool call has been made; no file exists
NoFile == <<"no such file">>
\* a tool call as execute_tool reads it: the "tool" key and the arguments it
\* maps for that tool, each with the default execute_tool gives it
DefaultBashTimeout == 120
\* limit=None, the default of read_file, also what a call without "limit" gives
NoLimit == -1
ToolCall(tool) ==
    [tool |-> tool, path |-> "", content |-> << >>, old_text |-> << >>,
     new_text |-> << >>, offset |-> 0, limit |-> NoLimit, command |-> "",
     timeout |-> DefaultBashTimeout]
NoCall == ToolCall("none")
\* a result dict: its keys and the values of interest; raised names the
\* exception when the call raised instead of returning
BlankResult ==
    [keys |-> {}, success |-> FALSE, error |-> "", content |-> << >>, lines |-> 0,
     returncode |-> 0, raised |-> "none"]
NoResult == BlankResult
InitIdleTools ==
    /\ disk = [files |-> << >>, dirs |-> {}]
    /\ diskBefore = disk
    /\ toolCall = NoCall
    /\ toolResult = NoResult

\* no prompt has been submitted to the terminal application
InitIdleApp ==
    /\ chat_log = << >>
    /\ queries = << >>

\* no restart command is under way
InitIdleLife ==
    /\ procs = 0
    /\ dpc = "idle"
    /\ dCommands = 0

InitIdleSelect == everSelected = {}

InitIdleInteractive ==
    /\ doc = << >>
    /\ parsed = Unparsed
    /\ InitIdleQuery
    /\ InitIdleTools
    /\ InitIdleApp /\ InitIdleLife /\ InitIdleSelect

\* one Orchestrator process from its start to its end
Init ==
    /\ tasks \in Catalogs
    /\ InitProcess /\ InitGuard /\ InitIdleInteractive

Next ==
    \/ InitDatabase
    \/ BeginCycle
    \/ \E i \in DOMAIN active_agents : TaskStart(i)
    \/ \E i \in DOMAIN active_agents : TaskQuery(i)
    \/ \E i \in DOMAIN active_agents : ModelReturns(i)
    \/ GatherDone
    \/ CycleTimeout
    \/ ProcessResult
    \/ FinishCycle
    \/ CycleFault
    \/ WakeUp
    \/ Interrupt
    \/ Tick

Spec == Init /\ [][Next]_vars

\* the Orchestrator under the Guardian, on a catalog of one WorkItem (which
\* runs in the second cycle of every process)
GuardCatalogs == { <<"high">> }

InitGuarded ==
    /\ tasks \in GuardCatalogs
    /\ InitProcess /\ InitGuard /\ InitIdleInteractive

NextGuarded ==
    \/ InitDatabase
    \/ BeginCycle
    \/ \E i \in DOMAIN active_agents : TaskStart(i)
    \/ \E i \in DOMAIN active_agents : TaskQuery(i)
    \/ \E i \in DOMAIN active_agents : ModelReturns(i)
    \/ GatherDone
    \/ CycleTimeout
    \/ ProcessResult
    \/ FinishCycle
    \/ WakeUp
    \/ Interrupt
    \/ Tick
    \/ GCheckAlive
    \/ GCheckActivity
    \/ GKill
    \/ GSpawn
    \/ GGraceDone
    \/ GSleepDone

SpecGuard == InitGuarded /\ [][NextGuarded]_vars

\* the Guardian process keeps running: its subprocess calls return and its
\* sleeps end
GuardianStep ==
    \/ GCheckAlive
    \/ GCheckActivity
    \/ GKill
    \/ GSpawn
    \/ GGraceDone
    \/ GSleepDone

SpecGuardLive == InitGuarded /\ [][NextGuarded]_vars /\ WF_vars(GuardianStep)

----------------------------------------------------------------------------
(* The tool-call protocol: response texts and parse_tool_calls *)

MaxBlocks == 3

\* A response text is modelled as the blocks the model wrote, rendered to a
\* sequence of tokens: the fence (three backquotes), the word tool, a
\* newline, prose, and JSON texts.  A JSON text carries the number of the block it belongs to
\* (read it as the path argument), so two calls are told apart.
Tok(t, k) == [t |-> t, at |-> k]
Fence == Tok("fence", 0)
ToolWord == Tok("tool", 0)
NL == Tok("\n", 0)

\* what is between the fences of a block of each kind
BlockBody ==
    [ call_read    |-> "{\"tool\":\"read\",\"path\":p}",
      call_unknown |-> "{\"tool\":\"nope\"}",
      call_todo    |-> "{\"tool\":\"todo\",\"tool_name\":p}",
      no_key       |-> "{\"path\":p}",
      null_tool    |-> "{\"tool\":null,\"path\":p}",
      empty_tool   |-> "{\"tool\":\"\",\"path\":p}",
      number       |-> "5",
      string       |-> "\"use a tool\"",
      array        |-> "[\"tool\"]",
      bad_json     |-> "{oops",
      unclosed     |-> "{\"tool\":\"read\"," ]

\* the blocks the system prompt asks for: a fenced JSON object with a "tool" key
WellFormedKinds == {"call_read", "call_unknown", "call_todo"}
\* fenced tool blocks that fail validation
MalformedKinds == {"no_key", "null_tool", "empty_tool", "number", "string", "array",
                   "bad_json", "unclosed"}
BlockKinds == WellFormedKinds \cup MalformedKinds \cup {"prose"}

\* the text of block number k of the given kind, as in the system prompt:
\* fence tool \n <json> \n fence  (an unclosed block lacks the closing fence)
RenderBlock(kind, k) ==
    IF kind = "prose" THEN <<Tok("prose", k)>>
    ELSE IF kind = "unclosed" THEN <<Fence, ToolWord, NL, Tok(BlockBody[kind], k), NL>>
    ELSE <<Fence, ToolWord, NL, Tok(BlockBody[kind], k), NL, Fence>>

Render(d) ==
    LET RECURSIVE Walk(_)
        Walk(k) == IF k > Len(d) THEN << >>
                   ELSE RenderBlock(d[k], k) \o (IF k < Len(d) THEN <<NL>> ELSE << >>)
                        \o Walk(k + 1)
    IN Walk(1)

\* re.findall with the pattern  fence tool \s* \n? (.*?) \n? fence  and
\* DOTALL: from the first opener, lazily up to the next fence, whatever that
\* fence was meant
\* to be; the search resumes after it
FindAll(toks) ==
    LET RECURSIVE Scan(_)
        Scan(i) ==
            IF i + 1 > Len(toks) THEN << >>
            ELSE IF toks[i] = Fence /\ toks[i + 1] = ToolWord
            THEN LET closers == {j \in (i + 2)..Len(toks) : toks[j] = Fence} IN
                 IF closers = {} THEN << >>
                 ELSE LET j == CHOOSE c \in closers : \A c2 \in closers : c <= c2 IN
                      <<SubSeq(toks, i + 2, j - 1)>> \o Scan(j + 1)
            ELSE Scan(i + 1)
    IN Scan(1)

\* match.strip()
Strip(m) ==
    LET inner == {i \in DOMAIN m : m[i] # NL} IN
    IF inner = {} THEN << >>
    ELSE LET lo == CHOOSE i \in inner : \A i2 \in inner : i <= i2
             hi == CHOOSE i \in inner : \A i2 \in inner : i2 <= i
         IN SubSeq(m, lo, hi)

JsonObjects == {BlockBody.call_read, BlockBody.call_unknown, BlockBody.call_todo,
                BlockBody.no_key, BlockBody.null_tool, BlockBody.empty_tool}
JsonTexts == JsonObjects \cup {BlockBody.number, BlockBody.string, BlockBody.array}

\* json.loads: the text must be exactly one JSON value
JsonLoads(m) ==
    IF Len(m) = 1 /\ m[1].t \in JsonTexts THEN m[1] ELSE Tok("JSONDecodeError", 0)

\* `"tool" in tool_data`: a key of an object, a substring of a string, an
\* element of an array; a TypeError for a number
ToolIn(v) ==
    CASE v.t \in {BlockBody.call_read, BlockBody.call_unknown, BlockBody.call_todo,
                  BlockBody.null_tool, BlockBody.empty_tool} -> "yes"
      [] v.t = BlockBody.no_key -> "no"
      [] v.t = BlockBody.string -> "yes"
      [] v.t = BlockBody.array -> "yes"
      [] v.t = BlockBody.number -> "TypeError"

Returned(calls) == [state |-> "returned", calls |-> calls]
Raised(what) == [state |-> what, calls |-> << >>]

\* parse_tool_calls: the loop over the matches; only JSONDecodeError is caught
ParseToolCalls(toks) ==
    LET matches == FindAll(toks)
        RECURSIVE Loop(_, _)
        Loop(i, acc) ==
            IF i > Len(matches) THEN Returned(acc)
            ELSE LET v == JsonLoads(Strip(matches[i])) IN
                 IF v.t = "JSONDecodeError" THEN Loop(i + 1, acc)
                 ELSE IF ToolIn(v) = "TypeError" THEN Raised("TypeError")
                 ELSE IF ToolIn(v) = "yes" THEN Loop(i + 1, Append(acc, v))
                 ELSE Loop(i + 1, acc)
    IN Loop(1, << >>)

\* execute_tool and ToolRegistry.execute: a structured result, or the
\* exception that leaves execute_tool
ExecuteTool(call) ==
    CASE call.t \in {BlockBody.string, BlockBody.array} -> "AttributeError"
      [] call.t = BlockBody.call_todo -> "TypeError"
      [] call.t = BlockBody.call_read -> "result"
      [] call.t = BlockBody.call_unknown -> "error result"
      [] call.t \in {BlockBody.null_tool, BlockBody.empty_tool} -> "error result"

Structured == {"result", "error result"}

----------------------------------------------------------------------------
(* SpecParse: parse_tool_calls on every text of up to MaxBlocks blocks *)

Docs == UNION {[1..n -> BlockKinds] : n \in 0..MaxBlocks}

InitIdleBatch ==
    /\ tasks = << >>
    /\ InitProcess /\ InitGuard

InitParse ==
    /\ doc \in Docs
    /\ parsed = Unparsed
    /\ InitIdleBatch /\ InitIdleQuery /\ InitIdleTools
    /\ InitIdleApp /\ InitIdleLife /\ InitIdleSelect

Parse ==
    /\ parsed.state = "unset"
    /\ parsed' = ParseToolCalls(Render(doc))
    /\ UNCHANGED <<doc, orchVars, guardVars, queryVars, toolVars, appVars, lifeVars, selVars>>

NextParse == Parse

SpecParse == InitParse /\ [][NextParse]_vars

----------------------------------------------------------------------------
(* SpecQuery: AgentInterface.query, one action per round *)

DefaultMaxToolIterations == 5

\* the conversation so far, as main.py passes it: one entry per answered
\* query, oldest first (an entry is named by its position)
MaxHistory == 6
Histories == {[i \in 1..n |-> i] : n \in 0..MaxHistory}

\* the responses the model may give in a round
QueryDocs ==
    { << >>,
      <<"prose">>,
      <<"call_read">>,
      <<"call_unknown", "call_read">>,
      <<"bad_json", "call_read">>,
      <<"call_todo">>,
      <<"call_read", "call_todo">>,
      <<"number", "call_read">>,
      <<"array">>,
      <<"no_key">>,
      <<"null_tool">>,
      <<"empty_tool">> }

TextOf(toks) == [kind |-> "text", text |-> toks]
NoneValue == [kind |-> "None", text |-> << >>]

\* `full_response if full_response else None`
TextOrNone(toks) == IF toks = << >> THEN NoneValue ELSE TextOf(toks)

Marker(call) == [t |-> "[Tool executed]", at |-> call.at]

\* the for loop over tool_calls: the calls dispatched before execute_tool
\* raises (all of them if it never does)
DispatchedPrefix(calls) ==
    LET bad == {k \in DOMAIN calls : ExecuteTool(calls[k]) \notin Structured} IN
    IF bad = {} THEN calls
    ELSE SubSeq(calls, 1, CHOOSE k \in bad : \A k2 \in bad : k <= k2)

Results(calls) == [k \in DOMAIN calls |-> [call |-> calls[k], result |-> ExecuteTool(calls[k])]]
Markers(calls) == [k \in DOMAIN calls |-> Marker(calls[k])]

\* history[-5:]
HistoryWindow == 5
LastK(h, k) == IF Len(h) <= k THEN h ELSE SubSeq(h, Len(h) - k + 1, Len(h))

\* full_prompt of a round: the system prompt, the last exchanges, the tool
\* results so far ("Previous tool results:", absent when there is none) and
\* "User: " current_prompt
FullPrompt(h, results, cur) ==
    [system |-> "SYSTEM_PROMPT", exchanges |-> LastK(h, HistoryWindow),
     results |-> results, user |-> cur]

QueryFrame ==
    UNCHANGED <<orchVars, guardVars, parseVars, toolVars, appVars, lifeVars, selVars,
                max_tool_iterations, history>>

\* query() left by the exception instead of returning
Escaped == [kind |-> "raised", text |-> << >>]

OnRequestExceptionEscapes(text) == Escaped
\* what query() returns when the request raises (httpx error, timeout, or a
\* body that is not JSON): the catch-all handler
OnRequestException(text) == NoneValue

\* a round whose model call succeeds with response d: parse, then either
\* return (no tool call), or dispatch and go round again
QRound ==
    /\ qpc = "loop"
    /\ iteration < max_tool_iterations
    /\ \E d \in QueryDocs :
         LET text == Render(d)
             p == ParseToolCalls(text)
             sent == DispatchedPrefix(p.calls)
         IN
         /\ modelCalls' = modelCalls + 1
         /\ prompts' = Append(prompts, FullPrompt(history, tool_results, current_prompt))
         /\ responses' = Append(responses, d)
         /\ iteration' = iteration + 1
         /\ IF p.state # "returned"
            THEN \* parse_tool_calls raised: the catch-all handler
                 /\ abortCause' = "parse"
                 /\ ret' = NoneValue
                 /\ qpc' = "done"
                 /\ UNCHANGED <<full_response, tool_results, dispatched, current_prompt>>
            ELSE IF p.calls = << >>
            THEN \* no tool calls: the final response
                 /\ full_response' = full_response \o text
                 /\ ret' = TextOf(full_response')
                 /\ qpc' = "done"
                 /\ UNCHANGED <<tool_results, dispatched, abortCause, current_prompt>>
            ELSE IF sent # p.calls \/ ExecuteTool(sent[Len(sent)]) \notin Structured
            THEN \* execute_tool raised on the last call of sent
                 /\ dispatched' = dispatched \o sent
                 /\ tool_results' = tool_results \o Results(SubSeq(sent, 1, Len(sent) - 1))
                 /\ full_response' = full_response \o text \o <<NL, NL>>
                                        \o Markers(SubSeq(sent, 1, Len(sent) - 1))
                 /\ abortCause' = "dispatch"
                 /\ ret' = NoneValue
                 /\ qpc' = "done"
                 /\ UNCHANGED current_prompt
            ELSE /\ dispatched' = dispatched \o sent
                 /\ tool_results' = tool_results \o Results(sent)
                 /\ full_response' = full_response \o text \o <<NL, NL>> \o Markers(sent)
                 /\ current_prompt' = "Continue based on the tool results above."
                 /\ UNCHANGED <<qpc, ret, abortCause>>
    /\ QueryFrame

\* a round whose model call answers with a status other than 200
QTransportStatus ==
    /\ qpc = "loop"
    /\ iteration < max_tool_iterations
    /\ modelCalls' = modelCalls + 1
    /\ iteration' = iteration + 1
    /\ abortCause' = "status"
    /\ ret' = TextOrNone(full_response)
    /\ qpc' = "done"
    /\ prompts' = Append(prompts, FullPrompt(history, tool_results, current_prompt))
    /\ UNCHANGED <<full_response, tool_results, dispatched, responses, current_prompt>>
    /\ QueryFrame

\* a round whose model call raises
QTransportException ==
    /\ qpc = "loop"
    /\ iteration < max_tool_iterations
    /\ modelCalls' = modelCalls + 1
    /\ iteration' = iteration + 1
    /\ abortCause' = "exception"
    /\ ret' = OnRequestException(full_response)
    /\ qpc' = "done"
    /\ prompts' = Append(prompts, FullPrompt(history, tool_results, current_prompt))
    /\ UNCHANGED <<full_response, tool_results, dispatched, responses, current_prompt>>
    /\ QueryFrame

\* the for loop is exhausted
QExhausted ==
    /\ qpc = "loop"
    /\ iteration = max_tool_iterations
    /\ ret' = TextOrNone(full_response)
    /\ qpc' = "done"
    /\ UNCHANGED <<iteration, modelCalls, full_response, tool_results, dispatched,
                   responses, abortCause, current_prompt, prompts>>
    /\ QueryFrame

\* add_message(text, style), as the line it writes to the chat log
Message(style, text) == [style |-> style, text |-> text]
NoResponseNotice == Message("error", <<Tok("Error: No response from agent", 0)>>)
ExceptionNotice == Message("error", <<Tok("Error: ", 0), Tok("str(e)", 0)>>)

\* _process_query once query() is over: `if response:` shows the answer and
\* appends the exchange to conversation_history, else shows the notice; an
\* exception out of query() is shown by the handler
ProcessQuery ==
    /\ qpc = "done"
    /\ chat_log = << >>
    /\ IF ret = Escaped
       THEN chat_log' = <<ExceptionNotice>> /\ UNCHANGED history
       ELSE IF ret.kind = "text" /\ ret.text # << >>
       THEN /\ chat_log' = <<Message("response", ret.text)>>
            /\ history' = Append(history, Len(history) + 1)
       ELSE chat_log' = <<NoResponseNotice>> /\ UNCHANGED history
    /\ UNCHANGED <<qpc, max_tool_iterations, iteration, modelCalls, full_response,
                   tool_results, dispatched, responses, ret, abortCause,
                   current_prompt, prompts, queries>>
    /\ UNCHANGED <<orchVars, guardVars, parseVars, toolVars, lifeVars, selVars>>

InitQuery ==
    /\ qpc = "loop"
    /\ max_tool_iterations \in {1, 2, DefaultMaxToolIterations}
    /\ iteration = 0
    /\ modelCalls = 0
    /\ full_response = << >>
    /\ tool_results = << >>
    /\ dispatched = << >>
    /\ responses = << >>
    /\ ret = [kind |-> "unset", text |-> << >>]
    /\ abortCause = "none"
    /\ doc = << >> /\ parsed = Unparsed
    /\ history \in Histories /\ current_prompt = "request" /\ prompts = << >>
    /\ InitIdleBatch /\ InitIdleTools
    /\ InitIdleApp /\ InitIdleLife /\ InitIdleSelect

NextQuery ==
    \/ QRound
    \/ QTransportStatus
    \/ QTransportException
    \/ QExhausted
    \/ ProcessQuery

SpecQuery == InitQuery /\ [][NextQuery]_vars

----------------------------------------------------------------------------
(* The tools: ToolRegistry and AgentInterface.execute_tool *)

MaxText == 2

\* file contents and tool arguments are texts over three characters
Chars == {"a", "\r", "\n"}
Texts(n) == UNION {[1..k -> Chars] : k \in 0..n}

\* two paths: one in the working directory, one in a directory d
Paths == {"f", "d/f"}
Parents(path) == IF path = "d/f" THEN {"d"} ELSE {}

\* `sub in s`
Contains(s, sub) ==
    \E i \in 1..(Len(s) - Len(sub) + 1) : SubSeq(s, i, i + Len(sub) - 1) = sub

\* s.replace(old, new, 1), for old in s
ReplaceFirst(s, old, new) ==
    LET at == {i \in 1..(Len(s) - Len(old) + 1) : SubSeq(s, i, i + Len(old) - 1) = old}
        i == CHOOSE j \in at : \A k \in at : j <= k
    IN SubSeq(s, 1, i - 1) \o new \o SubSeq(s, i + Len(old), Len(s))

\* open(path, 'r'): text mode with universal newlines, "\r\n" and "\r" are
\* read as "\n"
RECURSIVE Decode(_)
Decode(bytes) ==
    IF bytes = << >> THEN << >>
    ELSE IF Head(bytes) = "\r"
    THEN <<"\n">> \o Decode(IF Len(bytes) >= 2 /\ bytes[2] = "\n"
                              THEN SubSeq(bytes, 3, Len(bytes)) ELSE Tail(bytes))
    ELSE <<Head(bytes)>> \o Decode(Tail(bytes))

\* open(path, 'w'): text mode, "\n" is written as os.linesep (posix)
LineSep == <<"\n">>
RECURSIVE Encode(_)
Encode(text) ==
    IF text = << >> THEN << >>
    ELSE (IF Head(text) = "\n" THEN LineSep ELSE <<Head(text)>>) \o Encode(Tail(text))

\* f.readlines(): the lines of a text, each with its line end
RECURSIVE ReadLines(_)
ReadLines(text) ==
    IF text = << >> THEN << >>
    ELSE LET ends == {i \in DOMAIN text : text[i] = "\n"} IN
         IF ends = {} THEN <<text>>
         ELSE LET e == CHOOSE i \in ends : \A j \in ends : i <= j IN
              <<SubSeq(text, 1, e)>> \o ReadLines(SubSeq(text, e + 1, Len(text)))

\* "".join(lines)
RECURSIVE Join(_)
Join(lines) == IF lines = << >> THEN << >> ELSE Head(lines) \o Join(Tail(lines))

Failure(error) ==
    [BlankResult EXCEPT !.keys = {"success", "error"}, !.error = error]
ErrorOnly(error) ==
    [BlankResult EXCEPT !.keys = {"error"}, !.error = error]
RaisedOut(exception) ==
    [BlankResult EXCEPT !.raised = exception]

\* read_file: `if offset:` lines[offset:], `if limit:` lines[:limit]
read_file(d, path, offset, limit) ==
    IF d.files[path] = NoFile
    THEN [result |-> Failure("No such file or directory"), disk |-> d]
    ELSE LET all == ReadLines(Decode(d.files[path]))
             from == IF offset # 0 THEN SubSeq(all, offset + 1, Len(all)) ELSE all
             lines == IF limit # NoLimit /\ limit # 0 /\ Len(from) > limit
                      THEN SubSeq(from, 1, limit) ELSE from
         IN [result |-> [BlankResult EXCEPT !.keys = {"success", "content", "lines"},
                                            !.success = TRUE, !.content = Join(lines),
                                            !.lines = Len(lines)],
             disk |-> d]

\* write_file: mkdir(parents=True, exist_ok=True), then open(path, 'w')
write_file(d, path, content) ==
    [result |-> [BlankResult EXCEPT !.keys = {"success", "path"}, !.success = TRUE],
     disk |-> [files |-> [d.files EXCEPT ![path] = Encode(content)],
               dirs |-> d.dirs \cup Parents(path)]]

\* edit_file: read, `old_text not in content`, replace once, write back
edit_file(d, path, old_text, new_text) ==
    IF d.files[path] = NoFile
    THEN [result |-> Failure("No such file or directory"), disk |-> d]
    ELSE LET content == Decode(d.files[path]) IN
         IF ~Contains(content, old_text)
         THEN [result |-> Failure("Text not found"), disk |-> d]
         ELSE [result |-> [BlankResult EXCEPT !.keys = {"success", "path"}, !.success = TRUE],
               disk |-> [d EXCEPT !.files[path] =
                                     Encode(ReplaceFirst(content, old_text, new_text))]]

\* the shell commands of the model and what the shell does with each: exit
\* code, running time in seconds, whether stdout is valid UTF-8, and the
\* files afterwards
Commands == {"true", "false", "sleep 5", "printf '\\377'", "rm f"}
RunShell(d, command) ==
    CASE command = "true" -> [exit |-> 0, seconds |-> 0, utf8 |-> TRUE, disk |-> d]
      [] command = "false" -> [exit |-> 1, seconds |-> 0, utf8 |-> TRUE, disk |-> d]
      [] command = "sleep 5" -> [exit |-> 0, seconds |-> 5, utf8 |-> TRUE, disk |-> d]
      [] command = "printf '\\377'" -> [exit |-> 0, seconds |-> 0, utf8 |-> FALSE, disk |-> d]
      [] command = "rm f" ->
             IF d.files["f"] = NoFile
             THEN [exit |-> 1, seconds |-> 0, utf8 |-> TRUE, disk |-> d]
             ELSE [exit |-> 0, seconds |-> 0, utf8 |-> TRUE,
                   disk |-> [d EXCEPT !.files["f"] = NoFile]]

\* execute_bash: subprocess.run(shell=True, capture_output=True, text=True,
\* timeout=timeout); TimeoutExpired and every other Exception (the output
\* does not decode) give a failure result
execute_bash(d, command, timeout) ==
    LET run == RunShell(d, command) IN
    IF run.seconds > timeout
    THEN [result |-> Failure("Command timeout"), disk |-> d]
    ELSE IF ~run.utf8
    THEN [result |-> Failure("'utf-8' codec can't decode byte"), disk |-> run.disk]
    ELSE [result |-> [BlankResult EXCEPT
                         !.keys = {"success", "stdout", "stderr", "returncode"},
                         !.success = (run.exit = 0), !.returncode = run.exit],
          disk |-> run.disk]

\* glob, grep, todo, feature_status, dev_progress: they change no file; their
\* results are not modelled beyond success
ReadOnlyTools == {"glob", "grep", "todo", "feature_status", "dev_progress"}
RegisteredTools == {"read", "write", "edit", "bash"} \cup ReadOnlyTools

\* ToolRegistry.execute: an unregistered name gives an error dict; an
\* exception of the tool function is caught and gives one too
execute(d, call) ==
    IF call.tool \notin RegisteredTools
    THEN [result |-> ErrorOnly("Tool not found"), disk |-> d]
    ELSE CASE call.tool = "read" -> read_file(d, call.path, call.offset, call.limit)
           [] call.tool = "write" -> write_file(d, call.path, call.content)
           [] call.tool = "edit" -> edit_file(d, call.path, call.old_text, call.new_text)
           [] call.tool = "bash" -> execute_bash(d, call.command, call.timeout)
           [] OTHER -> [result |-> [BlankResult EXCEPT !.keys = {"success"}, !.success = TRUE],
                        disk |-> d]

\* execute_tool, the else branch of the mapping of tool names
UnknownToolRaises(d, call) == [result |-> RaisedOut("KeyError"), disk |-> d]
UnknownTool(d, call) == [result |-> ErrorOnly("Unknown tool"), disk |-> d]

\* execute_tool: no name, a name it maps to ToolRegistry.execute, or another
MappedTools == {"read", "write", "edit", "glob", "grep", "bash", "todo",
                "feature_status", "dev_progress"}
execute_tool(d, call) ==
    IF call.tool = ""
    THEN [result |-> ErrorOnly("No tool specified"), disk |-> d]
    ELSE IF call.tool \in MappedTools THEN execute(d, call)
    ELSE UnknownTool(d, call)

----------------------------------------------------------------------------
(* SpecTools: tool calls on a small file system *)

\* the tool calls of the model
ToolCalls ==
    {[ToolCall("read") EXCEPT !.path = p, !.offset = o, !.limit = l] :
        p \in Paths, o \in {0, 1}, l \in {NoLimit, 0, 1}}
    \cup {[ToolCall("write") EXCEPT !.path = p, !.content = c] :
        p \in Paths, c \in Texts(MaxText)}
    \cup {[ToolCall("edit") EXCEPT !.path = p, !.old_text = o, !.new_text = n] :
        p \in Paths, o \in Texts(MaxText), n \in {<< >>, <<"a">>}}
    \cup {[ToolCall("bash") EXCEPT !.command = c, !.timeout = t] :
        c \in Commands, t \in {1, DefaultBashTimeout}}
    \cup {ToolCall(t) : t \in ReadOnlyTools \cup {"nope", "Read", ""}}

\* the file systems of the model: each path holds a file of up to MaxText
\* characters or none; a file in d needs d
Disks ==
    {[files |-> f, dirs |-> ds] :
        f \in [Paths -> Texts(MaxText) \cup {NoFile}], ds \in SUBSET {"d"}}

InitTools ==
    /\ disk \in {d \in Disks : d.files["d/f"] # NoFile => "d" \in d.dirs}
    /\ diskBefore = disk
    /\ toolCall = NoCall
    /\ toolResult = NoResult
    /\ doc = << >> /\ parsed = Unparsed
    /\ InitIdleBatch /\ InitIdleQuery
    /\ InitIdleApp /\ InitIdleLife /\ InitIdleSelect

\* one call of execute_tool
Dispatch(call) ==
    LET out == execute_tool(disk, call) IN
    /\ \A p \in Paths : out.disk.files[p] = NoFile \/ Len(out.disk.files[p]) <= MaxText
    /\ diskBefore' = disk
    /\ disk' = out.disk
    /\ toolCall' = call
    /\ toolResult' = out.result
    /\ UNCHANGED <<orchVars, guardVars, parseVars, queryVars, appVars, lifeVars, selVars>>

NextTools == \E call \in ToolCalls : Dispatch(call)

SpecTools == InitTools /\ [][NextTools]_vars

----------------------------------------------------------------------------
(* Claims about the batch path *)

Agents == {active_agents[i] : i \in DOMAIN active_agents}
InSeq(x, s) == \E k \in DOMAIN s : s[k] = x

\* C1: no record with status running is ever appended to the execution log:
\* only tasks that reached completed or failed before the cycle timeout are
\* written.
C1_NoRunningRecord ==
    \A i \in DOMAIN log : log[i].status \in {"completed", "failed"}

\* the restart condition of the claim, on what a check observed
RestartDue(found, age) ==
    \/ ~found
    \/ found /\ age # NoRecord /\ age > 15

\* C2: at every Guardian check the Orchestrator is restarted (killed, then
\* spawned) if it is not found alive, or if it is found alive and the newest
\* record is older than 15 minutes; in every other case (newest record within
\* the threshold, or no readable record) nothing is killed and nothing
\* spawned.
C2_RestartIffDeadOrStale ==
    /\ gpc \in {"kill", "spawn", "grace"} => RestartDue(gFound, gAge)
    /\ gpc = "sleep" => ~RestartDue(gFound, gAge) /\ gActs = << >>
    /\ gpc = "activity" => gActs = << >>
    /\ gpc = "spawn" => gActs = <<"kill">>
    /\ gpc = "grace" => gActs = <<"kill", "spawn">>

\* a check found the process alive with a stale newest record and restarted it
C2_Witness ==
    gpc = "grace" /\ gFound /\ gAge > 15 /\ gActs = <<"kill", "spawn">> /\ orchAlive

FailureLogged(a) ==
    /\ InSeq("Task failed", a.outputs)
    /\ \/ InSeq("No response from Ollama", a.outputs)
       \/ InSeq("FATAL ERROR in task execution", a.outputs)

ModelCallFailed(a) ==
    \/ InSeq("Ollama query failed", a.outputs)
    \/ InSeq("Ollama returned status", a.outputs)
    \/ InSeq("No response from Ollama", a.outputs)

\* what holds of every agent task in every state
TaskBoundary(a, cycleTimedOut) ==
    /\ a.escaped \in {"none", "CancelledError"}
    /\ a.escaped = "CancelledError" => cycleTimedOut /\ a.status = "running"
    /\ a.at = "done" /\ a.escaped = "none" => a.status \in {"completed", "failed"}
    /\ a.status = "failed" => FailureLogged(a)
    /\ ModelCallFailed(a) \/ InSeq("FATAL ERROR in task execution", a.outputs)
          => a.status = "failed"
    /\ a.status = "initialized" <=> a.at = "new"

StatusEdges ==
    { <<"initialized", "running">>, <<"running", "completed">>, <<"running", "failed">> }

C10_TierOfCycle ==
    cycle_count >= 1 =>
        current_priority = (CASE cycle_count % 4 = 1 -> "critical"
                              [] cycle_count % 4 = 2 -> "high"
                              [] cycle_count % 4 = 3 -> "medium"
                              [] cycle_count % 4 = 0 -> "low")

\* the rotation has wrapped around: cycle 5 is a critical cycle again
C10_Witness ==
    cycle_count = 5 /\ current_priority = "critical" /\ log # << >>

----------------------------------------------------------------------------
(* Claims about the interactive path *)

\* the calls of the well-formed blocks of a text, in order
RECURSIVE WellFormedCalls(_, _)
WellFormedCalls(d, k) ==
    IF k > Len(d) THEN << >>
    ELSE (IF d[k] \in WellFormedKinds THEN <<Tok(BlockBody[d[k]], k)>> ELSE << >>)
         \o WellFormedCalls(d, k + 1)

RequestsTool(d) == WellFormedCalls(d, 1) # << >>

TransportFailed == abortCause \in {"status", "exception"}

\* C4: when every response of the model requests a tool call and no model
\* call fails, query() ends after exactly max_tool_iterations model calls
\* and returns a non-empty text.
C4_LoopBounded ==
    (qpc = "done" /\ ~TransportFailed /\ \A r \in DOMAIN responses : RequestsTool(responses[r]))
        => /\ modelCalls = max_tool_iterations
           /\ ret.kind = "text"
           /\ ret.text # << >>

\* C5: parse_tool_calls returns exactly the calls of the well-formed blocks of
\* the text, in their order, and the empty list when there is none.
C5_ParseExact ==
    parsed.state # "unset" => parsed = Returned(WellFormedCalls(doc, 1))

\* C6: a malformed block is dropped without a trace: query() never takes its
\* error path because of one, and nothing but the call of a well-formed block
\* is ever dispatched.
C6_MalformedDropped ==
    /\ abortCause # "parse"
    /\ \A k \in DOMAIN dispatched : dispatched[k].t \in {BlockBody[w] : w \in WellFormedKinds}

\* C7: a transport failure in a round ends query() at once with the text
\* accumulated before that round, and with None only if there was none.
C7_PartialOnTransportFailure ==
    TransportFailed => qpc = "done" /\ ret = TextOrNone(full_response)

\* C8: execute_tool never propagates a failure: every call that is dispatched
\* yields a structured result, and no exception of execute_tool reaches the
\* loop of query().
C8_DispatchNeverRaises ==
    /\ abortCause # "dispatch"
    /\ Len(tool_results) = Len(dispatched)
    /\ \A k \in DOMAIN tool_results : tool_results[k].result \in Structured

----------------------------------------------------------------------------
(* Claims about selection and concurrency *)

ItemsOfTier(p) == {i \in DOMAIN tasks : tasks[i] = p}

C12_AtMostTwoSelected ==
    /\ Len(selected) <= 2
    /\ Len(active_agents) <= 2
    /\ \A k, l \in DOMAIN selected : tasks[selected[k]] = tasks[selected[l]]
    /\ \A k, l \in DOMAIN selected : k < l => selected[k] < selected[l]

C12_Witness ==
    /\ cycle_count = 3 /\ current_priority = "medium"
    /\ Cardinality(ItemsOfTier("medium")) > 2
    /\ Len(selected) = 2
    /\ pc = "gather" /\ Len(active_agents) = 2

\* C13: in every reachable state at most 2 AgentTasks are running, the tasks
\* of a timed-out earlier cycle counted with those of the current cycle.
C13_AtMostTwoRunning ==
    Cardinality({i \in DOMAIN active_agents : active_agents[i].status = "running"})
        + abandoned <= 2

C13_Witness ==
    /\ \E k \in DOMAIN log : log[k].status = "running"
    /\ Len(active_agents) = 2
    /\ \A i \in DOMAIN active_agents :
          active_agents[i].status = "running" /\ active_agents[i].at = "await"

----------------------------------------------------------------------------
(* Claims about the execution log, task progress and recovery *)

Terminal == {"completed", "failed"}

\* C14: each pass of the results loop over a task that ended completed or
\* failed appends exactly one record, that task's, to the execution log, also
\* when the write to the store fails; no other step of a cycle adds a record.
C14_ExactlyOneRecord ==
    [][ /\ (/\ pc = "results" /\ idx \in DOMAIN active_agents /\ idx' = idx + 1
            /\ active_agents[idx].status \in Terminal)
           => /\ Len(log') = Len(log) + 1
              /\ SubSeq(log', 1, Len(log)) = log
              /\ log'[Len(log')].agent_id = active_agents[idx].agent_id
              /\ log'[Len(log')].status = active_agents[idx].status
        /\ ~(pc = "results" /\ idx' = idx + 1) => Len(log') <= Len(log)
      ]_vars

\* C15: a task that entered status running ends completed or failed while the
\* process lives.  Once execute_task has ended nothing changes the status any
\* more, so a task that has ended must have ended completed or failed.
C15_EndedTasksAreTerminal ==
    orchAlive =>
        \A i \in DOMAIN active_agents :
            active_agents[i].at = "done" => active_agents[i].status \in Terminal

\* C16: when the Orchestrator process is dead and the Guardian keeps running,
\* the Guardian eventually finds it missing at a check and starts a fresh
\* process (as long as the model lets it restart); only the Guardian's spawn
\* ever brings a process to life.
C16_GuardianRepairsDeath ==
    /\ (~orchAlive /\ restarts < MaxRestarts) ~> orchAlive
    /\ [][ (~orchAlive /\ orchAlive') => (gpc = "spawn" /\ gpc' = "grace") ]_vars

C16_Witness ==
    /\ orchAlive /\ exitCause = "interrupt"
    /\ ~gFound /\ gActs = <<"kill", "spawn">> /\ gpc = "grace"

\* C17: a Guardian restart is kill, then one spawn, then the grace period:
\* the spawn follows the kill and happens once, no liveness or staleness
\* check is made from the kill to the end of the grace period, and a process
\* is started only by a spawn that a kill preceded.
C17_RestartOrder ==
    [][ /\ gActs' # gActs =>
              \/ gActs = << >> /\ gActs' = <<"kill">> /\ gpc' = "spawn"
              \/ gActs = <<"kill">> /\ gActs' = <<"kill", "spawn">> /\ gpc' = "grace"
              \/ gActs = <<"kill", "spawn">> /\ gActs' = << >> /\ gpc = "grace"
        /\ (gpc \in {"spawn", "grace"} /\ gpc' # "check") =>
              gFound' = gFound /\ gAge' = gAge
        /\ gpc \in {"spawn", "grace"} => gpc' \notin {"activity", "kill", "sleep"}
        /\ (gpc = "spawn" /\ gpc' # gpc) => (gActs = <<"kill">> /\ orchAlive')
        /\ (~orchAlive /\ orchAlive') => gActs = <<"kill">>
      ]_vars

C17_Witness ==
    /\ restarts = 1 /\ gpc = "check" /\ gActs = << >>
    /\ orchAlive /\ exitCause = "kill"

\* C18: every startup of an Orchestrator process leaves the execution log
\* empty: right after init_database it holds no record, whatever an earlier
\* process wrote.
C18_LogEmptyAfterStartup ==
    [][ (pc = "start" /\ pc' = "loop") => log' = << >> ]_vars

IsPrefix(l1, l2) == Len(l1) <= Len(l2) /\ SubSeq(l2, 1, Len(l1)) = l1

\* C19: while one Orchestrator process lives (past its startup, which drops
\* the table) the execution log only grows at its end: no record is changed
\* or deleted, the count never decreases, and no step of the Guardian
\* changes the log.
C19_AppendOnly ==
    [][ /\ (orchAlive /\ orchAlive' /\ pc # "start" /\ pc' # "start") => IsPrefix(log, log')
        /\ (gpc' # gpc /\ ~(gpc = "spawn" /\ gpc' = "grace")) => log' = log
        /\ log' # log => orchAlive /\ pc \in {"start", "results"}
      ]_vars

C19_Witness ==
    /\ orchAlive /\ pc = "sleep" /\ cycle_count = 2
    /\ Len(log) = 1
    /\ gpc = "sleep" /\ gFound /\ gAge = 0

\* C20: a cycle that ends with an exception is followed by the short backoff
\* of 60 s, not by the inter-cycle sleep of 600 s.
C20_BackoffAfterCycleFault ==
    [][ (faults' > faults /\ lastFault'[1] = "totals") => SleepSeconds(pc') = 60 ]_vars

----------------------------------------------------------------------------
(* Claims about the tools *)

\* the file a call names, as it was when the call began
CalledFile == diskBefore.files[toolCall.path]

\* C21: edit(path, old, new) on a file whose content does not contain old
\* returns the failure "Text not found" and leaves the file byte-identical.
C21_EditAbsentFails ==
    (toolCall.tool = "edit" /\ CalledFile # NoFile /\ ~Contains(CalledFile, toolCall.old_text))
        => /\ toolResult = Failure("Text not found")
           /\ disk = diskBefore

\* C22: edit(path, old, new) on a file containing old succeeds and replaces
\* the first occurrence of old by new and nothing else: what is before it,
\* what is after it (later occurrences included) and every other file are
\* unchanged.
C22_EditFirstOccurrence ==
    (toolCall.tool = "edit" /\ CalledFile # NoFile /\ Contains(CalledFile, toolCall.old_text))
        => /\ toolResult.success
           /\ disk.files[toolCall.path] =
                  ReplaceFirst(CalledFile, toolCall.old_text, toolCall.new_text)
           /\ \A p \in Paths \ {toolCall.path} : disk.files[p] = diskBefore.files[p]

\* C23: write(path, content) followed by read(path) with default offset and
\* limit returns content unchanged, whether or not the file or its directory
\* existed before.
C23_WriteReadRoundTrip ==
    [][ (/\ toolCall.tool = "write"
         /\ toolCall'.tool = "read" /\ toolCall'.path = toolCall.path
         /\ toolCall'.offset = 0 /\ toolCall'.limit = NoLimit)
        => /\ toolResult'.success
           /\ toolResult'.content = toolCall.content ]_vars

\* C24: a bash call never raises; when the command exceeds its timeout the
\* result is a failure, and when it ends in time the result is a success
\* exactly when the exit code is 0.
C24_BashTimeoutAndExit ==
    toolCall.tool = "bash" =>
        LET run == RunShell(diskBefore, toolCall.command) IN
        /\ toolResult.raised = "none"
        /\ "success" \in toolResult.keys
        /\ run.seconds > toolCall.timeout => ~toolResult.success
        /\ run.seconds <= toolCall.timeout => (toolResult.success <=> run.exit = 0)

\* C25: a call whose tool name is not a registered tool yields an error
\* result, changes no file and does not raise.
C25_UnknownToolIsError ==
    (toolCall # NoCall /\ toolCall.tool \notin RegisteredTools)
        => /\ toolResult.keys = {"error"}
           /\ toolResult.raised = "none"
           /\ disk = diskBefore

C25_Witness ==
    /\ toolCall.tool = "nope"
    /\ toolResult = ErrorOnly("Unknown tool")
    /\ disk.files["f"] # NoFile
    /\ disk = diskBefore

----------------------------------------------------------------------------
(* Claims about the rounds of the conversation loop *)

LastResponse == responses[Len(responses)]

\* C26: a round whose response yields no parsed tool call ends the loop in
\* that round: nothing is dispatched, no further model call is made, and
\* query() returns the text accumulated before followed by this response.
C26_NoToolCallEndsLoop ==
    [][ /\ (/\ Len(responses') = Len(responses) + 1
            /\ ParseToolCalls(Render(LastResponse')).calls = << >>)
           => /\ qpc' = "done"
              /\ dispatched' = dispatched
              /\ ret' = TextOf(full_response \o Render(LastResponse'))
        /\ qpc = "done" => modelCalls' = modelCalls ]_vars

\* the JSON objects without a usable "tool": the key is absent, null or ""
MissingDiscriminator == {BlockBody.no_key, BlockBody.null_tool, BlockBody.empty_tool}

\* C27: a block whose JSON lacks the "tool" key, or has it null or empty, is
\* dropped: it is never handed to execute_tool and never leaves a tool
\* result that keeps the loop going.
C27_MissingDiscriminatorDropped ==
    /\ \A k \in DOMAIN dispatched : dispatched[k].t \notin MissingDiscriminator
    /\ \A k \in DOMAIN tool_results : tool_results[k].call.t \notin MissingDiscriminator

\* C28: the prompt of every round holds the system preamble, the last
\* HistoryWindow exchanges of the history in their order, the request of
\* this query, and the tool results this query has accumulated so far (none
\* in the first round, never fewer in a later round).
C28_PromptContext ==
    \A r \in DOMAIN prompts :
        LET e == prompts[r].exchanges IN
        /\ prompts[r].system = "SYSTEM_PROMPT"
        /\ Len(e) = (IF Len(history) <= HistoryWindow THEN Len(history) ELSE HistoryWindow)
        /\ \A i \in DOMAIN e : e[i] = history[Len(history) - Len(e) + i]
        /\ prompts[r].user = "request"
        /\ IsPrefix(prompts[r].results, tool_results)
        /\ r = 1 => prompts[r].results = << >>
        /\ \A r2 \in DOMAIN prompts : r < r2 => IsPrefix(prompts[r].results, prompts[r2].results)

----------------------------------------------------------------------------
(* Claims about the times of an ExecutionRecord *)

\* C29: an execution that has both times has end time >= start time; the end
\* time is set on every path out of execute_task and only after the start
\* time; every record in the log has both times.
C29_EndNotBeforeStart ==
    /\ \A a \in Agents :
          /\ a.at = "done" => a.end_time # NoTime
          /\ a.end_time # NoTime => a.start_time # NoTime /\ a.end_time >= a.start_time
    /\ \A k \in DOMAIN log :
          /\ log[k].start_time # NoTime
          /\ log[k].end_time # NoTime
          /\ log[k].end_time >= log[k].start_time

C29_Witness ==
    /\ \E k \in DOMAIN log : log[k].end_time > log[k].start_time /\ log[k].status = "completed"
    /\ \E k \in DOMAIN log : log[k].end_time = log[k].start_time /\ log[k].status = "failed"

----------------------------------------------------------------------------
(* Claims about the health score *)

\* the logs that differ from l at most in which records are completed and
\* which failed
StatusVariants(l) ==
    {[k \in DOMAIN l |-> [l[k] EXCEPT !.status = st[k]]] :
        st \in [DOMAIN l -> {"completed", "failed"}]}

\* C30: the Guardian's restart decision is the same for every log that
\* differs from the present one only in the completed / failed statuses of
\* its records (whatever their health scores), and the step that computes
\* the health score changes neither the log nor the Orchestrator process.
C30_HealthDecidesNothing ==
    /\ [](\A l2 \in StatusVariants(log) : ActivityCheck(l2, now) = ActivityCheck(log, now))
    /\ [][ gHealth' # gHealth => UNCHANGED orchVars ]_vars

C30_Witness ==
    /\ gpc = "sleep" /\ gFound /\ orchAlive
    /\ gHealth = 0
    /\ \E l2 \in StatusVariants(log) : HealthScore(l2, now) = 100

----------------------------------------------------------------------------
(* Claims about the slice a read returns *)

\* C31: a read of an existing file returns exactly the lines offset ..
\* offset+limit-1 of it (through the last line when limit is omitted), for
\* every offset >= 0 and limit >= 0; a read of a missing file returns a
\* failure result without content.
C31_ReadSlice ==
    toolCall.tool = "read" =>
        IF CalledFile = NoFile
        THEN ~toolResult.success /\ "content" \notin toolResult.keys
        ELSE LET all == ReadLines(Decode(CalledFile))
                 last == IF toolCall.limit = NoLimit \/ toolCall.offset + toolCall.limit > Len(all)
                         THEN Len(all) ELSE toolCall.offset + toolCall.limit
             IN /\ toolResult.success
                /\ toolResult.content = Join(SubSeq(all, toolCall.offset + 1, last))
                /\ toolResult.lines = last - toolCall.offset
----------------------------------------------------------------------------
(* Claims about what the user of the interactive path is shown *)

\* C32: for a submitted prompt the user is shown exactly one outcome: the
\* text query() returned, or the "no response" notice when it returned
\* nothing; no failure of the conversation loop (transport, tool or parse
\* error) leaves query() as an exception.
C32_OneOutcome ==
    /\ ret # Escaped
    /\ Len(chat_log) <= 1
    /\ chat_log # << >> =>
          /\ qpc = "done"
          /\ chat_log[1] = IF ret.kind = "text" /\ ret.text # << >>
                           THEN Message("response", ret.text)
                           ELSE NoResponseNotice
    /\ (abortCause # "none" /\ full_response = << >> /\ chat_log # << >>)
          => chat_log[1] = NoResponseNotice
C32_Witness ==
    /\ chat_log = <<NoResponseNotice>>
    /\ abortCause = "exception"
    /\ dispatched # << >>
----------------------------------------------------------------------------
(* Claims about the timeouts *)

\* timeout of the DevelopmentAgent's client, in seconds: what one model call
\* of a task may wait
ModelCallTimeout == 120
\* timeout of the wait for the tasks of a cycle, in seconds
CycleTimeoutSeconds == 600

\* C33: the timeout scopes are strictly nested: the timeout of a tool call
\* (the default of bash) is less than the timeout of a task's model call,
\* which is less than the timeout of a cycle.
C33_TimeoutsNested ==
    (toolCall.tool = "bash" /\ toolCall.timeout = DefaultBashTimeout) =>
        /\ toolCall.timeout < ModelCallTimeout
        /\ ModelCallTimeout < CycleTimeoutSeconds
----------------------------------------------------------------------------
(* Claims about the counters of a process *)

\* C34: within one Orchestrator process every cycle attempt, also one that
\* spawns no agent or ends in a fault, adds exactly 1 to cycle_count and so
\* moves the rotation to the next tier; cycle_count, total_completions and
\* total_failures never decrease; a freshly started process, and only that,
\* starts them from 0.
C34_CountersResetOnlyOnRestart ==
    [][ /\ (orchAlive /\ orchAlive') =>
              /\ cycle_count' \in {cycle_count, cycle_count + 1}
              /\ total_completions' >= total_completions
              /\ total_failures' >= total_failures
              /\ (pc = "loop" /\ pc' # "loop") =>
                    /\ cycle_count' = cycle_count + 1
                    /\ current_priority' = priority_order[(cycle_count % 4) + 1]
              /\ cycle_count' # cycle_count => pc = "loop"
        /\ (~orchAlive /\ orchAlive') =>
              cycle_count' = 0 /\ total_completions' = 0 /\ total_failures' = 0
      ]_vars
C34_Witness ==
    /\ restarts >= 1 /\ orchAlive
    /\ cycle_count >= 2
    /\ total_completions + total_failures >= 1
----------------------------------------------------------------------------
(* SpecRestart: the restart commands of the Guardian and of the dashboard *)
(* and the Orchestrator processes they kill and start.  What a process    *)
(* does is left out: procs counts the processes that pgrep and pkill      *)
(* would match, and the Guardian's staleness check may go either way.     *)

MaxCommands == 2

RestartFrame == UNCHANGED <<orchVars, parseVars, queryVars, toolVars, appVars, selVars>>

\* main() of the Guardian up to its decision: restart when pgrep finds no
\* process or the newest record is stale
RCheck ==
    /\ gpc = "check"
    /\ gFound' = (procs > 0)
    /\ \E stale \in BOOLEAN :
          gpc' = IF procs = 0 \/ stale THEN "kill" ELSE "sleep"
    /\ UNCHANGED <<gAge, gActs, restarts, gHealth, gBasis, lifeVars>>
    /\ RestartFrame

\* restart_autonomous_system, pkill: every Orchestrator process ends
RKill ==
    /\ gpc = "kill"
    /\ restarts < MaxRestarts
    /\ procs' = 0
    /\ gpc' = "spawn"
    /\ UNCHANGED <<gFound, gAge, gActs, restarts, gHealth, gBasis, dpc, dCommands>>
    /\ RestartFrame

\* restart_autonomous_system after its sleep of 3 s: Popen
RSpawn ==
    /\ gpc = "spawn"
    /\ procs' = procs + 1
    /\ restarts' = restarts + 1
    /\ gpc' = "grace"
    /\ UNCHANGED <<gFound, gAge, gActs, gHealth, gBasis, dpc, dCommands>>
    /\ RestartFrame

\* restart_agents of the dashboard, pkill
DKill ==
    /\ dpc = "idle"
    /\ dCommands < MaxCommands
    /\ dCommands' = dCommands + 1
    /\ procs' = 0
    /\ dpc' = "wait"
    /\ UNCHANGED guardVars
    /\ RestartFrame

\* restart_agents after its sleep of 2 s: Popen
DSpawn ==
    /\ dpc = "wait"
    /\ procs' = procs + 1
    /\ dpc' = "idle"
    /\ UNCHANGED <<guardVars, dCommands>>
    /\ RestartFrame

\* an Orchestrator process ends on its own (KeyboardInterrupt, a signal)
ProcessExits ==
    /\ procs > 0
    /\ procs' = procs - 1
    /\ UNCHANGED <<guardVars, dpc, dCommands>>
    /\ RestartFrame

InitRestart ==
    /\ procs \in {0, 1}
    /\ dpc = "idle"
    /\ dCommands = 0
    /\ doc = << >> /\ parsed = Unparsed
    /\ InitIdleBatch /\ InitIdleQuery /\ InitIdleTools
    /\ InitIdleApp /\ InitIdleSelect

NextRestart ==
    \/ RCheck
    \/ RKill
    \/ RSpawn
    \/ GGraceDone
    \/ GSleepDone
    \/ DKill
    \/ DSpawn
    \/ ProcessExits

SpecRestart == InitRestart /\ [][NextRestart]_vars

\* C35: at most one Orchestrator process is alive at any time, under every
\* interleaving of the restarts of the Guardian and of the dashboard, each
\* a kill, a wait and a spawn.
C35_SingleOrchestrator == procs <= 1
----------------------------------------------------------------------------
(* Claims about repeated restarts *)

\* C36: a stale record triggers at most one restart: once the Guardian has
\* restarted the Orchestrator because the newest record was stale, no later
\* check of it decides a restart on the basis of that same record, however
\* its checks interleave with the start of the new process.
C36_StaleRecordRestartsOnce ==
    [][ (gpc = "activity" /\ gpc' = "kill" /\ restarts >= 1 /\ gBasis # NoTime)
            => Newest(log) # gBasis ]_vars
\* C37: an Orchestrator process that stays alive without persisting a record
\* is eventually restarted by the Guardian, also when the log holds no
\* record at all.  Stated for the log without record: from a state where the
\* process is alive and the log empty, the process ends, or a record is
\* persisted, or the Guardian decides to restart.
C37_HungIsRestarted ==
    (orchAlive /\ log = << >> /\ restarts < MaxRestarts)
        ~> (~orchAlive \/ log # << >> \/ gpc = "kill")
----------------------------------------------------------------------------
(* SpecSelect: the selection of run_development_cycle, cycle after cycle,  *)
(* in an Orchestrator that runs for ever.  What the agents do is left out.  *)
(* cycle_count is kept modulo the length of priority_order, which is all    *)
(* the selection reads of it.                                               *)

MaxItems == 4

\* catalogs of up to MaxItems WorkItems of any priorities, and the real one
SelectCatalogs ==
    {RealCatalog} \cup
    UNION {[1..n -> {priority_order[k] : k \in DOMAIN priority_order}] : n \in 0..MaxItems}

\* run_development_cycle, from the count of the cycle to priority_tasks[:2]
SelectCycle ==
    /\ cycle_count' = (cycle_count % Len(priority_order)) + 1
    /\ current_priority' = Tier(cycle_count')
    /\ selected' = FirstN(PriorityTasks(tasks, current_priority'), MaxAgentsPerCycle)
    /\ everSelected' = everSelected \cup {selected'[k] : k \in DOMAIN selected'}
    /\ UNCHANGED <<tasks, orchAlive, pc, total_completions, total_failures, active_agents,
                   completed, failed, idx, log, now, exitCause, faults, lastFault,
                   timedOut, abandoned>>
    /\ UNCHANGED <<guardVars, parseVars, queryVars, toolVars, appVars, lifeVars>>

InitSelect ==
    /\ tasks \in SelectCatalogs
    /\ everSelected = {}
    /\ InitProcess /\ InitGuard
    /\ doc = << >> /\ parsed = Unparsed
    /\ InitIdleQuery /\ InitIdleTools /\ InitIdleApp /\ InitIdleLife

NextSelect == SelectCycle

\* `while True`: the next cycle always comes
SpecSelect == InitSelect /\ [][NextSelect]_vars /\ WF_vars(SelectCycle)

\* C38: no WorkItem is starved: in an Orchestrator that runs for ever every
\* WorkItem of the catalog is eventually selected in some cycle, also when
\* its tier holds more than 2 items.
C38_NoStarvation == <>(everSelected = DOMAIN tasks)

----------------------------------------------------------------------------
(* Claims about the totals *)

CompletedAgents ==
    Cardinality({i \in DOMAIN active_agents : active_agents[i].status = "completed"})

\* C39: when a cycle ends, total_completions + total_failures has grown by
\* exactly the number of agents spawned in it: by one completion for every
\* agent whose status is completed when the results are processed and by one
\* failure for every other agent (failed, or still running at the cycle
\* timeout); a cycle that spawns no agent leaves both totals unchanged.
C39_TotalsAccounting ==
    [][ /\ (orchAlive' /\ pc = "results" /\ pc' = "sleep") =>
              /\ total_completions' = total_completions + CompletedAgents
              /\ total_failures' = total_failures + Len(active_agents) - CompletedAgents
        /\ (orchAlive' /\ pc = "loop" /\ pc' = "sleep") =>
              /\ active_agents' = << >>
              /\ UNCHANGED <<total_completions, total_failures>>
        /\ (orchAlive /\ orchAlive' /\ pc' = pc) =>
              UNCHANGED <<total_completions, total_failures>>
      ]_vars
----------------------------------------------------------------------------
(* SpecChat: the terminal application with several prompts under way.  Each *)
(* submitted prompt runs _process_query as a task of its own; query() is    *)
(* taken as a whole: it reads the history when it starts and later returns  *)
(* a text or nothing.  Prompts and exchanges are named by the number of the *)
(* prompt, in order of submission.                                          *)

MaxPrompts == 4

ChatFrame == UNCHANGED <<orchVars, guardVars, parseVars, toolVars, lifeVars, selVars>>
QueryLocalsIdle ==
    UNCHANGED <<qpc, max_tool_iterations, iteration, modelCalls, full_response,
                tool_results, dispatched, responses, ret, abortCause,
                current_prompt, prompts>>

\* on_input_submitted: the prompt is shown and its task created; the task
\* enters query(), which builds its context from history[-5:]
Submit ==
    /\ Len(queries) < MaxPrompts
    /\ LET n == Len(queries) + 1 IN
          /\ queries' = Append(queries, [prompt |-> n, state |-> "running",
                                          context |-> LastK(history, HistoryWindow)])
          /\ chat_log' = Append(chat_log, Message("prompt", <<Tok("prompt", n)>>))
    /\ UNCHANGED history
    /\ QueryLocalsIdle /\ ChatFrame

\* _process_query of prompt i after query() returned a text: the answer is
\* shown and the exchange appended to conversation_history
Answered(i) ==
    /\ i \in DOMAIN queries
    /\ queries[i].state = "running"
    /\ queries' = [queries EXCEPT ![i].state = "answered"]
    /\ chat_log' = Append(chat_log, Message("response", <<Tok("answer", i)>>))
    /\ history' = Append(history, queries[i].prompt)
    /\ QueryLocalsIdle /\ ChatFrame

\* _process_query of prompt i after query() returned None or an empty text
NotAnswered(i) ==
    /\ i \in DOMAIN queries
    /\ queries[i].state = "running"
    /\ queries' = [queries EXCEPT ![i].state = "no response"]
    /\ chat_log' = Append(chat_log, NoResponseNotice)
    /\ UNCHANGED history
    /\ QueryLocalsIdle /\ ChatFrame

InitChat ==
    /\ chat_log = << >>
    /\ queries = << >>
    /\ doc = << >> /\ parsed = Unparsed
    /\ InitIdleBatch /\ InitIdleQuery /\ InitIdleTools
    /\ InitIdleLife /\ InitIdleSelect

NextChat ==
    \/ Submit
    \/ \E i \in DOMAIN queries : Answered(i)
    \/ \E i \in DOMAIN queries : NotAnswered(i)

SpecChat == InitChat /\ [][NextChat]_vars

\* C40: the exchanges are in conversation_history in the order in which
\* their prompts were submitted, and the context of every query holds the
\* exchange of every prompt submitted before it (of those that were
\* answered, within the window of 5), also when the earlier query was still
\* under way at the submission.
C40_HistoryInSubmissionOrder ==
    /\ \A k, l \in DOMAIN history : k < l => history[k] < history[l]
    /\ \A i \in DOMAIN queries : \A j \in 1..(i - 1) :
          (queries[j].state = "answered" /\ i - j <= HistoryWindow)
              => InSeq(j, queries[i].context)
====
